---- MODULE Spec2Model ----
(***************************************************************************)
(* Model of fbnet/command_runner/service.py (FcrServiceBase: start,        *)
(* shutdown, _clean_shutdown, terminate, running on an asyncio event loop) *)
(* and fbnet/command_runner/device_db.py (BaseDeviceDB: run,               *)
(* _fetch_devices, wait_for_data, get).                                    *)
(*                                                                         *)
(* Two specifications share the module:                                    *)
(*   Spec   / FairSpec   - the service life cycle on the event loop        *)
(*   SpecDB / FairSpecDB - the device database                             *)
(***************************************************************************)
EXTENDS Integers, Sequences, FiniteSets, TLC

(* ------------------------------ bounds --------------------------------- *)

\* number of SIGINT/SIGTERM deliveries considered in one execution
MaxSignals == 3

(* ------------------------- service: state ------------------------------ *)

VARIABLES
    shutting_down,   \* FcrServiceBase._shutting_down
    startPc,         \* position of start(): init, run_forever, run_until_complete, returned, raised
    stopping,        \* the event loop's stop flag, set by loop.stop()
    ready,           \* callbacks scheduled with call_soon for the next loop iteration
    batch,           \* callbacks of the current loop iteration that have not run yet
    taskState,       \* state of every asyncio task of the loop
    cancelReq,       \* Task.cancel() was called on the task and not delivered yet
    csOutcome,       \* how _clean_shutdown left its try block
    timerArmed,      \* wait_for's timeout handle is armed
    waiterReleased,  \* wait_for's waiter future was released (timeout or inner task done)
    gathered,        \* tasks handed to asyncio.gather in start()'s finally
    reported,        \* gathered tasks whose done callback has reached the gather future
    nSignals,        \* signals delivered so far
    nShutdown,       \* invocations of shutdown()
    terminateCount,  \* invocations of terminate()
    closeCount,      \* invocations of loop.close()
    lateShutdown,    \* shutdown() was invoked after terminate() had already run
    errorLog         \* messages logged with logger.error

svcVars == <<shutting_down, startPc, stopping, ready, batch, taskState,
             cancelReq, csOutcome, timerArmed, waiterReleased, gathered,
             reported, nSignals, nShutdown, terminateCount, closeCount,
             lateShutdown, errorLog>>

(* ------------------------ device db: state ----------------------------- *)

VARIABLES
    devices,         \* BaseDeviceDB._devices: name -> device
    data_valid,      \* BaseDeviceDB._data_valid
    runPc,           \* the periodic task: sleep, fetch (run suspended in the backend), cancelled
    getPc,           \* the caller of get(): idle, fetch (suspended in the backend)
    getName,         \* device.hostname of the current or last get()
    getAuto,         \* autofetch of the current or last get()
    getResult,       \* how the last get() ended: none, ok, KeyError, BackendError
    getValue,        \* the device the last get() returned
    lastMerged,      \* the result of _fetch_device_data merged last
    bulkDone,        \* some run() has completed without error
    runError,        \* the last run() raised
    getError,        \* the arguments of the KeyError the last get() raised
    fetchRaised,     \* the point fetch of the last get() raised
    race,            \* merges of a bulk fetch and a point fetch that were in flight together
    waitPc           \* the caller of wait_for_data(): idle, waiting, returned

dbVars == <<devices, data_valid, runPc, getPc, getName, getAuto, getResult,
            getValue, lastMerged, bulkDone, runError, getError, fetchRaised,
            race, waitPc>>

\* The tasks of the loop.  "cs" is the task running _clean_shutdown, "ws" the
\* task wait_for wraps CommandSession.wait_sessions in.  The others are the
\* background activities outstanding on the host: a PeriodicServiceTask loop,
\* an in-flight command session and a task suspended in a backend fetch.
BgTasks == {"periodic", "session", "fetch"}
Tasks == {"cs", "ws"} \cup BgTasks

Signals == {"SIGINT", "SIGTERM"}

TimeoutMsg == "Timeout waiting for sessions, shutting down anyway"

Cb(op, arg, n) == [op |-> op, arg |-> arg, n |-> n]
StepCb(t) == Cb("step", t, 0)
GatherCb(t) == Cb("gd", t, 0)
RunUntilCompleteCb == Cb("rucb", "loop", 0)

IsDone(ts, t) == ts[t] \in {"finished", "cancelled"}
IsLive(ts, t) == ts[t] \in {"created", "suspended"}

\* active sessions of the session registry
ActiveCount == Cardinality({t \in {"session"} : IsLive(taskState, t)})

LoopRunning == startPc \in {"run_forever", "run_until_complete"}

(* ----------------------- service: life cycle --------------------------- *)

Phase ==
    IF startPc \in {"returned", "raised"} THEN "Stopped"
    ELSE IF terminateCount > 0 THEN "Terminating"
    ELSE IF shutting_down THEN "GracefulDraining"
    ELSE "Running"

(* ----------------------- service: operations --------------------------- *)

\* Task.cancel() on a task suspended on a future cancels that future, which
\* schedules the task's wakeup; a task whose step is already scheduled only
\* gets its must-cancel flag set.
CancelWakeups(ts, rdy) ==
    {StepCb(t) : t \in {u \in Tasks : ts[u] = "suspended"
                                      /\ StepCb(u) \notin (rdy \cup batch)}}

\* every task that is not done gets a cancel request
CancelAll(ts) == [t \in Tasks |-> IsLive(ts, t)]

\* a task of the gather future that completes reports to it with call_soon
DoneCallbacks(ts) == {GatherCb(t) : t \in {u \in gathered : IsDone(ts, u)}}

\* the mutant of terminate that stops the loop without cancelling the tasks
terminate_NoCancel(ts, rdy) ==
    /\ cancelReq' = [t \in Tasks |-> cancelReq[t] /\ IsLive(ts, t)]
    /\ ready' = rdy
    /\ stopping' = TRUE
    /\ terminateCount' = terminateCount + 1

\* FcrServiceBase.terminate, called with the task states ts and the ready
\* queue rdy its caller leaves behind
terminate(ts, rdy) ==
    /\ cancelReq' = CancelAll(ts)
    /\ ready' = rdy \cup CancelWakeups(ts, rdy)
    /\ stopping' = TRUE
    /\ terminateCount' = terminateCount + 1

\* the mutant of shutdown that terminates on the first call as well
shutdown_AlwaysTerminate(rdy) ==
    /\ nShutdown' = nShutdown + 1
    /\ lateShutdown' = (lateShutdown \/ terminateCount > 0)
    /\ shutting_down' = TRUE
    /\ LET ts == IF ~shutting_down
                 THEN [taskState EXCEPT !["cs"] = "created"] ELSE taskState
           r == IF ~shutting_down THEN rdy \cup {StepCb("cs")} ELSE rdy
       IN /\ taskState' = ts
          /\ terminate(ts, r)

\* the mutant of shutdown that ignores a repeated call
shutdown_IgnoreRepeat(rdy) ==
    /\ nShutdown' = nShutdown + 1
    /\ lateShutdown' = (lateShutdown \/ terminateCount > 0)
    /\ IF ~shutting_down
       THEN /\ shutting_down' = TRUE
            /\ taskState' = [taskState EXCEPT !["cs"] = "created"]
            /\ ready' = rdy \cup {StepCb("cs")}
            /\ UNCHANGED <<cancelReq, stopping, terminateCount>>
       ELSE /\ ready' = rdy
            /\ UNCHANGED <<shutting_down, taskState, cancelReq, stopping,
                           terminateCount>>

\* the mutant of shutdown that cancels the periodic task on the first call
shutdown_CancelsPeriodic(rdy) ==
    /\ nShutdown' = nShutdown + 1
    /\ lateShutdown' = (lateShutdown \/ terminateCount > 0)
    /\ IF ~shutting_down
       THEN /\ shutting_down' = TRUE
            /\ taskState' = [taskState EXCEPT !["cs"] = "created"]
            /\ cancelReq' = [cancelReq EXCEPT
                                !["periodic"] = IsLive(taskState, "periodic")]
            /\ ready' = rdy \cup {StepCb("cs")}
                            \cup (CancelWakeups(taskState, rdy)
                                     \cap {StepCb("periodic")})
            /\ UNCHANGED <<stopping, terminateCount>>
       ELSE /\ terminate(taskState, rdy)
            /\ UNCHANGED <<shutting_down, taskState>>

\* FcrServiceBase.shutdown, the handler of SIGINT and SIGTERM
shutdown(rdy) ==
    /\ nShutdown' = nShutdown + 1
    /\ lateShutdown' = (lateShutdown \/ terminateCount > 0)
    /\ IF ~shutting_down
       THEN /\ shutting_down' = TRUE
            /\ taskState' = [taskState EXCEPT !["cs"] = "created"]
            /\ ready' = rdy \cup {StepCb("cs")}
            /\ UNCHANGED <<cancelReq, stopping, terminateCount>>
       ELSE /\ terminate(taskState, rdy)
            /\ UNCHANGED <<shutting_down, taskState>>

\* the mutant of the except clause that does not log the timeout
TimeoutLogged_Silent(outcome, log) == log

\* _clean_shutdown's except clause: a drain timeout is logged as an error
TimeoutLogged(outcome, log) ==
    IF outcome = "timeout" THEN log \cup {TimeoutMsg} ELSE log

\* FcrServiceBase.start up to the call of run_forever
start ==
    /\ startPc = "init"
    /\ startPc' = "run_forever"
    /\ UNCHANGED <<shutting_down, stopping, ready, batch, taskState, cancelReq,
                   csOutcome, timerArmed, waiterReleased, gathered, reported,
                   nSignals, nShutdown, terminateCount, closeCount,
                   lateShutdown, errorLog>>
    /\ UNCHANGED dbVars

\* the operating system delivers SIGINT or SIGTERM; the loop queues the
\* handler registered in __init__
Signal(sig) ==
    /\ nSignals < MaxSignals
    /\ startPc \in {"init", "run_forever", "run_until_complete"}
    /\ nSignals' = nSignals + 1
    /\ ready' = ready \cup {Cb("sig", sig, nSignals + 1)}
    /\ UNCHANGED <<shutting_down, startPc, stopping, batch, taskState,
                   cancelReq, csOutcome, timerArmed, waiterReleased, gathered,
                   reported, nShutdown, terminateCount, closeCount,
                   lateShutdown, errorLog>>
    /\ UNCHANGED dbVars

\* the loop starts an iteration: it runs the callbacks that are ready now
NextIteration ==
    /\ LoopRunning
    /\ batch = {}
    /\ ~stopping
    /\ ready # {}
    /\ batch' = ready
    /\ ready' = {}
    /\ UNCHANGED <<shutting_down, startPc, stopping, taskState, cancelReq,
                   csOutcome, timerArmed, waiterReleased, gathered, reported,
                   nSignals, nShutdown, terminateCount, closeCount,
                   lateShutdown, errorLog>>
    /\ UNCHANGED dbVars

\* the loop runs a signal handler
RunShutdown(c) ==
    /\ c \in batch
    /\ c.op = "sig"
    /\ batch' = batch \ {c}
    /\ shutdown(ready)
    /\ UNCHANGED <<startPc, csOutcome, timerArmed, waiterReleased, gathered,
                   reported, nSignals, closeCount, errorLog>>
    /\ UNCHANGED dbVars

\* a step of the task running _clean_shutdown
StepCleanShutdown ==
    /\ StepCb("cs") \in batch
    /\ batch' = batch \ {StepCb("cs")}
    /\ IF taskState["cs"] = "created"
       THEN IF cancelReq["cs"]
            THEN \* cancelled before its first step: the body never runs
                 LET ts == [taskState EXCEPT !["cs"] = "cancelled"] IN
                 /\ taskState' = ts
                 /\ cancelReq' = [cancelReq EXCEPT !["cs"] = FALSE]
                 /\ csOutcome' = "unstarted"
                 /\ ready' = ready \cup (DoneCallbacks(ts) \cap {GatherCb("cs")})
                 /\ UNCHANGED <<timerArmed, stopping, terminateCount, errorLog>>
            ELSE \* wait_for wraps wait_sessions in a task and arms the timeout
                 /\ taskState' = [taskState EXCEPT !["cs"] = "suspended",
                                                   !["ws"] = "created"]
                 /\ ready' = ready \cup {StepCb("ws")}
                 /\ timerArmed' = TRUE
                 /\ UNCHANGED <<cancelReq, csOutcome, stopping, terminateCount,
                                errorLog>>
       ELSE \* resumed in wait_for: cancelled, drained or timed out
            LET outcome == IF cancelReq["cs"] THEN "cancelled"
                           ELSE IF taskState["ws"] = "finished" THEN "drained"
                           ELSE "timeout"
                ts == [taskState EXCEPT
                          !["cs"] = IF outcome = "cancelled" THEN "cancelled"
                                    ELSE "finished"]
                \* wait_for cancels the inner task unless it is done
                wsCancel == IF IsLive(ts, "ws") /\ StepCb("ws") \notin (ready \cup batch)
                            THEN {StepCb("ws")} ELSE {}
                rdy == ready \cup wsCancel
                           \cup (DoneCallbacks(ts) \cap {GatherCb("cs")})
            IN
            /\ taskState' = ts
            /\ csOutcome' = outcome
            /\ timerArmed' = FALSE
            /\ errorLog' = TimeoutLogged(outcome, errorLog)
            /\ terminate(ts, rdy)
    /\ UNCHANGED <<shutting_down, startPc, waiterReleased, gathered, reported,
                   nSignals, nShutdown, closeCount, lateShutdown>>
    /\ UNCHANGED dbVars

\* _release_waiter of wait_for: the callback of the timeout handle and the
\* done callback of the inner task; it wakes _clean_shutdown unless the
\* waiter future is done already
ReleaseCb(why) == Cb("release", why, 0)

RunReleaseWaiter(c) ==
    /\ c \in batch
    /\ c.op = "release"
    /\ batch' = batch \ {c}
    /\ IF taskState["cs"] = "suspended" /\ ~waiterReleased /\ ~cancelReq["cs"]
       THEN /\ waiterReleased' = TRUE
            /\ ready' = ready \cup {StepCb("cs")}
       ELSE UNCHANGED <<waiterReleased, ready>>
    /\ UNCHANGED <<shutting_down, startPc, stopping, taskState, cancelReq,
                   csOutcome, timerArmed, gathered, reported, nSignals,
                   nShutdown, terminateCount, closeCount, lateShutdown,
                   errorLog>>
    /\ UNCHANGED dbVars

\* the deadline exit_max_wait of the drain wait elapses
TimeoutFires ==
    /\ LoopRunning
    /\ timerArmed
    /\ timerArmed' = FALSE
    /\ ready' = ready \cup {ReleaseCb("timeout")}
    /\ UNCHANGED <<shutting_down, startPc, stopping, batch, taskState,
                   cancelReq, csOutcome, waiterReleased, gathered, reported,
                   nSignals, nShutdown, terminateCount, closeCount,
                   lateShutdown, errorLog>>
    /\ UNCHANGED dbVars

\* a step of the task running CommandSession.wait_sessions: it completes
\* when no session is active and keeps waiting otherwise
StepWaitSessions ==
    /\ StepCb("ws") \in batch
    /\ batch' = batch \ {StepCb("ws")}
    /\ LET st == IF cancelReq["ws"] THEN "cancelled"
                 ELSE IF ActiveCount = 0 THEN "finished"
                 ELSE "suspended"
           ts == [taskState EXCEPT !["ws"] = st]
       IN
       /\ taskState' = ts
       /\ cancelReq' = [cancelReq EXCEPT !["ws"] = FALSE]
       /\ ready' = ready \cup (DoneCallbacks(ts) \cap {GatherCb("ws")})
                         \cup (IF st = "finished" THEN {ReleaseCb("ws")} ELSE {})
    /\ UNCHANGED <<shutting_down, startPc, stopping, csOutcome, timerArmed,
                   waiterReleased, gathered, reported, nSignals, nShutdown,
                   terminateCount, closeCount, lateShutdown, errorLog>>
    /\ UNCHANGED dbVars

\* the session registry wakes the drain wait when its active count is zero
WsNotify ==
    /\ LoopRunning
    /\ taskState["ws"] = "suspended"
    /\ ~cancelReq["ws"]
    /\ ActiveCount = 0
    /\ StepCb("ws") \notin (ready \cup batch)
    /\ ready' = ready \cup {StepCb("ws")}
    /\ UNCHANGED <<shutting_down, startPc, stopping, batch, taskState,
                   cancelReq, csOutcome, timerArmed, waiterReleased, gathered,
                   reported, nSignals, nShutdown, terminateCount, closeCount,
                   lateShutdown, errorLog>>
    /\ UNCHANGED dbVars

\* the future a background task is suspended on completes (the sleep of the
\* periodic task ends, the session's command completes, the backend answers)
Wakeup(t) ==
    /\ LoopRunning
    /\ taskState[t] = "suspended"
    /\ ~cancelReq[t]
    /\ StepCb(t) \notin (ready \cup batch)
    /\ ready' = ready \cup {StepCb(t)}
    /\ UNCHANGED <<shutting_down, startPc, stopping, batch, taskState,
                   cancelReq, csOutcome, timerArmed, waiterReleased, gathered,
                   reported, nSignals, nShutdown, terminateCount, closeCount,
                   lateShutdown, errorLog>>
    /\ UNCHANGED dbVars

\* a step of a background task: a pending cancel request is delivered as
\* CancelledError and ends the task; otherwise the periodic task goes on to
\* its next suspension and a session or a fetch completes
StepBg(t) ==
    /\ StepCb(t) \in batch
    /\ batch' = batch \ {StepCb(t)}
    /\ LET st == IF cancelReq[t] THEN "cancelled"
                 ELSE IF t = "periodic" THEN "suspended"
                 ELSE "finished"
           ts == [taskState EXCEPT ![t] = st]
       IN
       /\ taskState' = ts
       /\ cancelReq' = [cancelReq EXCEPT ![t] = FALSE]
       /\ ready' = ready \cup (DoneCallbacks(ts) \cap {GatherCb(t)})
    /\ UNCHANGED <<shutting_down, startPc, stopping, csOutcome, timerArmed,
                   waiterReleased, gathered, reported, nSignals, nShutdown,
                   terminateCount, closeCount, lateShutdown, errorLog>>
    /\ UNCHANGED dbVars

\* the done callback of a gathered task reaches the gather future; when the
\* last one has, the future completes and run_until_complete's callback is
\* scheduled
RunGatherCb(c) ==
    /\ c \in batch
    /\ c.op = "gd"
    /\ batch' = batch \ {c}
    /\ reported' = reported \cup {c.arg}
    /\ ready' = IF reported' = gathered
                THEN ready \cup {RunUntilCompleteCb} ELSE ready
    /\ UNCHANGED <<shutting_down, startPc, stopping, taskState, cancelReq,
                   csOutcome, timerArmed, waiterReleased, gathered, nSignals,
                   nShutdown, terminateCount, closeCount, lateShutdown,
                   errorLog>>
    /\ UNCHANGED dbVars

\* _run_until_complete_cb: the gather future is done, stop the loop
RunStopCb ==
    /\ RunUntilCompleteCb \in batch
    /\ batch' = batch \ {RunUntilCompleteCb}
    /\ stopping' = TRUE
    /\ UNCHANGED <<shutting_down, startPc, ready, taskState, cancelReq,
                   csOutcome, timerArmed, waiterReleased, gathered, reported,
                   nSignals, nShutdown, terminateCount, closeCount,
                   lateShutdown, errorLog>>
    /\ UNCHANGED dbVars

\* start(): run_forever returns once the iteration that called loop.stop()
\* is over; the finally block cancels every task and gathers them
ExitRunForever ==
    /\ startPc = "run_forever"
    /\ batch = {}
    /\ stopping
    /\ LET pending_tasks == {t \in Tasks : taskState[t] # "absent"} IN
       /\ gathered' = pending_tasks
       /\ cancelReq' = CancelAll(taskState)
       /\ ready' = ready \cup CancelWakeups(taskState, ready)
                         \cup {GatherCb(t) : t \in {u \in pending_tasks :
                                                      IsDone(taskState, u)}}
    /\ stopping' = FALSE
    /\ startPc' = "run_until_complete"
    /\ UNCHANGED <<shutting_down, batch, taskState, csOutcome, timerArmed,
                   waiterReleased, reported, nSignals, nShutdown,
                   terminateCount, closeCount, lateShutdown, errorLog>>
    /\ UNCHANGED dbVars

\* start(): run_until_complete returns when the loop stops; it raises
\* RuntimeError if the gather future is not done, and then loop.close() is
\* not reached
ExitRunUntilComplete ==
    /\ startPc = "run_until_complete"
    /\ batch = {}
    /\ stopping
    /\ stopping' = FALSE
    /\ IF reported = gathered
       THEN /\ startPc' = "returned"
            /\ closeCount' = closeCount + 1
       ELSE /\ startPc' = "raised"
            /\ UNCHANGED closeCount
    /\ UNCHANGED <<shutting_down, ready, batch, taskState, cancelReq,
                   csOutcome, timerArmed, waiterReleased, gathered, reported,
                   nSignals, nShutdown, terminateCount, lateShutdown, errorLog>>
    /\ UNCHANGED dbVars

(* ---------------------- device db: operations -------------------------- *)

\* primary names of the backend and the names a device can be looked up by
Hosts == {"R1", "R2"}
Names == Hosts \cup {"a1"}
Versions == {"v1", "v2"}

\* a device as the cache sees it: hostname, alias ("" when it has none) and
\* the rest of its field values
Devices ==
    {d \in [hostname : Hosts, alias : Names \cup {""}, fields : Versions] :
        d.alias # d.hostname}

NoDevice == [hostname |-> "", alias |-> "", fields |-> ""]

\* what _fetch_device_data can return: a sequence of devices, the primary
\* name being unique within the backend
Batches ==
    {<<>>} \cup {<<d>> : d \in Devices}
           \cup {p \in Devices \X Devices : p[1].hostname # p[2].hostname}

\* self._devices[k] = d
\* the mutant of the store that rebuilds the index around the stored key
Put_Prune(dv, k, d) == [x \in {k} |-> d]

\* the mutant of the store that keeps the value a key already has
Put_KeepFirst(dv, k, d) ==
    [x \in DOMAIN dv \cup {k} |-> IF x \in DOMAIN dv THEN dv[x] ELSE d]

Put(dv, k, d) == [x \in DOMAIN dv \cup {k} |-> IF x = k THEN d ELSE dv[x]]

\* the mutant of the loop body that forgets the alias
MergeOne_NoAlias(dv, d) == Put(dv, d.hostname, d)

\* the body of the for loop of _fetch_devices
MergeOne(dv, d) ==
    LET byName == Put(dv, d.hostname, d) IN
    IF d.alias # "" THEN Put(byName, d.alias, d) ELSE byName

\* the for loop of _fetch_devices over the fetched devices
RECURSIVE Merge(_, _)
Merge(dv, b) ==
    IF b = <<>> THEN dv ELSE Merge(MergeOne(dv, Head(b)), Tail(b))

\* the merges of a bulk fetch and a point fetch that were in flight at the
\* same time: "pointMerged" / "bulkMerged" while the other one is still in
\* flight, "pointThenBulk" / "bulkThenPoint" right after the second merge
RaceReset(r) == IF r \in {"pointThenBulk", "bulkThenPoint"} THEN "none" ELSE r

RaceAfterBulk(r, gpc) ==
    IF r = "pointMerged" THEN "pointThenBulk"
    ELSE IF gpc = "fetch" THEN "bulkMerged" ELSE "none"

RaceAfterPoint(r, rpc) ==
    IF r = "bulkMerged" THEN "bulkThenPoint"
    ELSE IF rpc = "fetch" THEN "pointMerged" ELSE "none"

RaceBulkGone(r) == IF r = "pointMerged" THEN "none" ELSE RaceReset(r)

RacePointGone(r) == IF r = "bulkMerged" THEN "none" ELSE RaceReset(r)

\* the mutant of the raise that leaves the requested name out
KeyErrorArgs_NoName(n) == <<"Device not found">>

\* raise KeyError("Device not found", device.hostname)
KeyErrorArgs(n) == <<"Device not found", n>>

\* the arguments of the KeyError get() raises, if it raises one
RaisedBy(result, n) == IF result = "KeyError" THEN KeyErrorArgs(n) ELSE <<>>

\* the mutant of run that marks the data invalid while it reloads
RunStart_Invalidate ==
    /\ runPc = "sleep"
    /\ runPc' = "fetch"
    /\ data_valid' = FALSE
    /\ UNCHANGED <<devices, getPc, getName, getAuto, getResult, getValue,
                   lastMerged, bulkDone>>
    /\ UNCHANGED runError
    /\ race' = RaceReset(race)
    /\ UNCHANGED <<getError, fetchRaised, waitPc>>
    /\ UNCHANGED svcVars

\* the period has elapsed: run() calls _fetch_devices, which suspends in
\* _fetch_device_data
RunStart ==
    /\ runPc = "sleep"
    /\ runPc' = "fetch"
    /\ UNCHANGED <<devices, data_valid, getPc, getName, getAuto, getResult,
                   getValue, lastMerged, bulkDone>>
    /\ UNCHANGED runError
    /\ race' = RaceReset(race)
    /\ UNCHANGED <<getError, fetchRaised, waitPc>>
    /\ UNCHANGED svcVars

\* the bulk fetch returns b: _fetch_devices merges it and run() sets
\* _data_valid, without a suspension in between
\* the mutant of the bulk refresh that yields to the loop after the first
\* device of the batch
RunFetched_Torn(b) ==
    /\ runPc = "fetch"
    /\ devices' = (IF b = <<>> THEN devices
                   ELSE Put(devices, Head(b).hostname, Head(b)))
    /\ lastMerged' = b
    /\ data_valid' = TRUE
    /\ bulkDone' = TRUE
    /\ runPc' = "sleep"
    /\ UNCHANGED <<getPc, getName, getAuto, getResult, getValue>>
    /\ runError' = FALSE
    /\ race' = RaceAfterBulk(race, getPc)
    /\ UNCHANGED <<getError, fetchRaised, waitPc>>
    /\ UNCHANGED svcVars

RunFetched(b) ==
    /\ runPc = "fetch"
    /\ devices' = Merge(devices, b)
    /\ lastMerged' = b
    /\ data_valid' = TRUE
    /\ bulkDone' = TRUE
    /\ runPc' = "sleep"
    /\ UNCHANGED <<getPc, getName, getAuto, getResult, getValue>>
    /\ runError' = FALSE
    /\ race' = RaceAfterBulk(race, getPc)
    /\ UNCHANGED <<getError, fetchRaised, waitPc>>
    /\ UNCHANGED svcVars

\* the mutant of the periodic loop that lets the error of run() end it
RunFailed_Stops ==
    /\ runPc = "fetch"
    /\ runPc' = "stopped"
    /\ UNCHANGED <<devices, data_valid, getPc, getName, getAuto, getResult,
                   getValue, lastMerged, bulkDone>>
    /\ runError' = TRUE
    /\ race' = RaceBulkGone(race)
    /\ UNCHANGED <<getError, fetchRaised, waitPc>>
    /\ UNCHANGED svcVars

\* the bulk fetch raises: run() is left before it sets _data_valid and the
\* periodic loop goes on to its next sleep
RunFailed ==
    /\ runPc = "fetch"
    /\ runPc' = "sleep"
    /\ UNCHANGED <<devices, data_valid, getPc, getName, getAuto, getResult,
                   getValue, lastMerged, bulkDone>>
    /\ runError' = TRUE
    /\ race' = RaceBulkGone(race)
    /\ UNCHANGED <<getError, fetchRaised, waitPc>>
    /\ UNCHANGED svcVars

\* the periodic task is cancelled
RunCancelled ==
    /\ runPc \in {"sleep", "fetch"}
    /\ runPc' = "cancelled"
    /\ UNCHANGED <<devices, data_valid, getPc, getName, getAuto, getResult,
                   getValue, lastMerged, bulkDone>>
    /\ UNCHANGED runError
    /\ race' = RaceBulkGone(race)
    /\ UNCHANGED <<getError, fetchRaised, waitPc>>
    /\ UNCHANGED svcVars

\* the second lookup of get (lines 86-91)
Lookup(dv, n) ==
    IF n \in DOMAIN dv THEN [result |-> "ok", value |-> dv[n]]
    ELSE [result |-> "KeyError", value |-> NoDevice]

\* the mutant of get that fetches on every miss, whatever autofetch says
GetCall_AlwaysFetch(n, autofetch) ==
    /\ getPc = "idle"
    /\ getName' = n
    /\ getAuto' = autofetch
    /\ IF n \notin DOMAIN devices
       THEN /\ getPc' = "fetch"
            /\ getResult' = "none"
            /\ getValue' = NoDevice
       ELSE /\ getPc' = "idle"
            /\ getResult' = Lookup(devices, n).result
            /\ getValue' = Lookup(devices, n).value
    /\ UNCHANGED <<devices, data_valid, runPc, lastMerged, bulkDone>>
    /\ UNCHANGED runError
    /\ getError' = RaisedBy(getResult', n)
    /\ fetchRaised' = FALSE
    /\ race' = RaceReset(race)
    /\ UNCHANGED <<waitPc>>
    /\ UNCHANGED svcVars

\* get(device, autofetch) up to its first suspension or its return
GetCall(n, autofetch) ==
    /\ getPc = "idle"
    /\ getName' = n
    /\ getAuto' = autofetch
    /\ IF n \notin DOMAIN devices /\ autofetch
       THEN /\ getPc' = "fetch"
            /\ getResult' = "none"
            /\ getValue' = NoDevice
       ELSE /\ getPc' = "idle"
            /\ getResult' = Lookup(devices, n).result
            /\ getValue' = Lookup(devices, n).value
    /\ UNCHANGED <<devices, data_valid, runPc, lastMerged, bulkDone>>
    /\ UNCHANGED runError
    /\ getError' = RaisedBy(getResult', n)
    /\ fetchRaised' = FALSE
    /\ race' = RaceReset(race)
    /\ UNCHANGED <<waitPc>>
    /\ UNCHANGED svcVars

\* the mutant of get that marks the data valid after a point fetch
GetFetched_MarksValid(b) ==
    /\ getPc = "fetch"
    /\ devices' = Merge(devices, b)
    /\ lastMerged' = b
    /\ data_valid' = TRUE
    /\ getPc' = "idle"
    /\ getResult' = Lookup(devices', getName).result
    /\ getValue' = Lookup(devices', getName).value
    /\ UNCHANGED <<runPc, getName, getAuto, bulkDone>>
    /\ UNCHANGED runError
    /\ getError' = RaisedBy(getResult', getName)
    /\ fetchRaised' = FALSE
    /\ race' = RaceAfterPoint(race, runPc)
    /\ UNCHANGED <<waitPc>>
    /\ UNCHANGED svcVars

\* the mutant of get that returns what it found before the point fetch
GetFetched_NoRecheck(b) ==
    /\ getPc = "fetch"
    /\ devices' = Merge(devices, b)
    /\ lastMerged' = b
    /\ getPc' = "idle"
    /\ getResult' = Lookup(devices, getName).result
    /\ getValue' = Lookup(devices, getName).value
    /\ UNCHANGED <<data_valid, runPc, getName, getAuto, bulkDone>>
    /\ UNCHANGED runError
    /\ getError' = RaisedBy(getResult', getName)
    /\ fetchRaised' = FALSE
    /\ race' = RaceAfterPoint(race, runPc)
    /\ UNCHANGED <<waitPc>>
    /\ UNCHANGED svcVars

\* the point fetch of get returns b: _fetch_devices merges it and get looks
\* the name up again
\* the mutant of get that also stores the first fetched device under the
\* requested name
GetFetched_IndexRequested(b) ==
    /\ getPc = "fetch"
    /\ devices' = (IF b = <<>> THEN devices
                   ELSE Put(Merge(devices, b), getName, Head(b)))
    /\ lastMerged' = b
    /\ getPc' = "idle"
    /\ getResult' = Lookup(devices', getName).result
    /\ getValue' = Lookup(devices', getName).value
    /\ UNCHANGED <<data_valid, runPc, getName, getAuto, bulkDone>>
    /\ UNCHANGED runError
    /\ getError' = RaisedBy(getResult', getName)
    /\ fetchRaised' = FALSE
    /\ race' = RaceAfterPoint(race, runPc)
    /\ UNCHANGED <<waitPc>>
    /\ UNCHANGED svcVars

GetFetched(b) ==
    /\ getPc = "fetch"
    /\ devices' = Merge(devices, b)
    /\ lastMerged' = b
    /\ getPc' = "idle"
    /\ getResult' = Lookup(devices', getName).result
    /\ getValue' = Lookup(devices', getName).value
    /\ UNCHANGED <<data_valid, runPc, getName, getAuto, bulkDone>>
    /\ UNCHANGED runError
    /\ getError' = RaisedBy(getResult', getName)
    /\ fetchRaised' = FALSE
    /\ race' = RaceAfterPoint(race, runPc)
    /\ UNCHANGED <<waitPc>>
    /\ UNCHANGED svcVars

\* the mutant of get that swallows the error of the point fetch and goes on
\* to the lookup
GetFailed_Swallowed ==
    /\ getPc = "fetch"
    /\ getPc' = "idle"
    /\ getResult' = Lookup(devices, getName).result
    /\ getValue' = Lookup(devices, getName).value
    /\ UNCHANGED <<devices, data_valid, runPc, getName, getAuto,
                   lastMerged, bulkDone>>
    /\ UNCHANGED runError
    /\ getError' = RaisedBy(getResult', getName)
    /\ fetchRaised' = TRUE
    /\ race' = RacePointGone(race)
    /\ UNCHANGED <<waitPc>>
    /\ UNCHANGED svcVars

\* the point fetch of get raises: the error leaves get
GetFailed ==
    /\ getPc = "fetch"
    /\ getPc' = "idle"
    /\ getResult' = "BackendError"
    /\ UNCHANGED <<devices, data_valid, runPc, getName, getAuto, getValue,
                   lastMerged, bulkDone>>
    /\ UNCHANGED runError
    /\ getError' = <<>>
    /\ fetchRaised' = TRUE
    /\ race' = RacePointGone(race)
    /\ UNCHANGED <<waitPc>>
    /\ UNCHANGED svcVars

\* the mutant of wait_for_data that waits once instead of in a loop
WaitWake_NoRecheck ==
    /\ waitPc = "waiting"
    /\ waitPc' = "returned"
    /\ UNCHANGED <<devices, data_valid, runPc, getPc, getName, getAuto,
                   getResult, getValue, lastMerged, bulkDone, runError,
                   getError, fetchRaised, race>>
    /\ UNCHANGED svcVars

\* wait_for_data() is called: it returns at once when the data is valid and
\* suspends in self.wait() otherwise
WaitCall ==
    /\ waitPc \in {"idle", "returned"}
    /\ waitPc' = IF data_valid THEN "returned" ELSE "waiting"
    /\ UNCHANGED <<devices, data_valid, runPc, getPc, getName, getAuto,
                   getResult, getValue, lastMerged, bulkDone, runError,
                   getError, fetchRaised, race>>
    /\ UNCHANGED svcVars

\* self.wait() returns: the while loop of wait_for_data tests _data_valid
\* again and returns or waits once more
WaitWake ==
    /\ waitPc = "waiting"
    /\ waitPc' = IF data_valid THEN "returned" ELSE "waiting"
    /\ UNCHANGED <<devices, data_valid, runPc, getPc, getName, getAuto,
                   getResult, getValue, lastMerged, bulkDone, runError,
                   getError, fetchRaised, race>>
    /\ UNCHANGED svcVars

InitSvc ==
    /\ shutting_down = FALSE
    /\ startPc = "init"
    /\ stopping = FALSE
    /\ ready = {}
    /\ batch = {}
    /\ taskState = [t \in Tasks |-> IF t \in BgTasks THEN "suspended" ELSE "absent"]
    /\ cancelReq = [t \in Tasks |-> FALSE]
    /\ csOutcome = "none"
    /\ timerArmed = FALSE
    /\ waiterReleased = FALSE
    /\ gathered = {}
    /\ reported = {}
    /\ nSignals = 0
    /\ nShutdown = 0
    /\ terminateCount = 0
    /\ closeCount = 0
    /\ lateShutdown = FALSE
    /\ errorLog = {}

InitDB ==
    /\ devices = <<>>
    /\ data_valid = FALSE
    /\ runPc = "sleep"
    /\ getPc = "idle"
    /\ getName = ""
    /\ getAuto = FALSE
    /\ getResult = "none"
    /\ getValue = NoDevice
    /\ lastMerged = <<>>
    /\ bulkDone = FALSE
    /\ runError = FALSE
    /\ getError = <<>>
    /\ fetchRaised = FALSE
    /\ race = "none"
    /\ waitPc = "idle"

(* --------------------------- specifications ---------------------------- *)

vars == <<svcVars, dbVars>>

Init == InitSvc /\ InitDB

NextDB ==
    \/ RunStart
    \/ \E b \in Batches : RunFetched(b)
    \/ RunFailed
    \/ RunCancelled
    \/ \E n \in Names, autofetch \in BOOLEAN : GetCall(n, autofetch)
    \/ \E b \in Batches : GetFetched(b)
    \/ GetFailed

SpecDB == Init /\ [][NextDB]_vars

\* the periodic refresh and the callers waiting for its data
NextReady ==
    \/ RunStart
    \/ \E b \in Batches : RunFetched(b)
    \/ RunFailed
    \/ RunCancelled
    \/ WaitCall
    \/ WaitWake

SpecReady == Init /\ [][NextReady]_vars

\* the period of the task elapses and self.wait() returns
FairSpecReady == SpecReady /\ WF_vars(RunStart) /\ WF_vars(WaitWake)



LoopStep ==
    \/ NextIteration
    \/ \E c \in batch : RunShutdown(c)
    \/ StepCleanShutdown
    \/ StepWaitSessions
    \/ \E c \in batch : RunReleaseWaiter(c)
    \/ \E t \in BgTasks : StepBg(t)
    \/ \E c \in batch : RunGatherCb(c)
    \/ RunStopCb
    \/ ExitRunForever
    \/ ExitRunUntilComplete

Next ==
    \/ start
    \/ \E sig \in Signals : Signal(sig)
    \/ TimeoutFires
    \/ WsNotify
    \/ \E t \in BgTasks : Wakeup(t)
    \/ NextIteration
    \/ \E c \in batch : RunShutdown(c)
    \/ StepCleanShutdown
    \/ StepWaitSessions
    \/ \E c \in batch : RunReleaseWaiter(c)
    \/ \E t \in BgTasks : StepBg(t)
    \/ \E c \in batch : RunGatherCb(c)
    \/ RunStopCb
    \/ ExitRunForever
    \/ ExitRunUntilComplete

Spec == Init /\ [][Next]_vars

\* the loop runs what is ready and time passes
FairSpec == Spec /\ WF_vars(start) /\ WF_vars(LoopStep) /\ WF_vars(TimeoutFires)

TypeOK ==
    /\ shutting_down \in BOOLEAN
    /\ startPc \in {"init", "run_forever", "run_until_complete", "returned", "raised"}
    /\ taskState \in [Tasks -> {"absent", "created", "suspended", "finished", "cancelled"}]
    /\ cancelReq \in [Tasks -> BOOLEAN]
    /\ \A t \in Tasks : cancelReq[t] => IsLive(taskState, t)
    /\ reported \subseteq gathered

(* ------------------------- service: claims ----------------------------- *)

\* the life cycle only moves forward, one phase at a time
PhaseOrder ==
    \/ Phase' = Phase
    \/ <<Phase, Phase'>> \in {<<"Running", "GracefulDraining">>,
                              <<"GracefulDraining", "Terminating">>,
                              <<"Terminating", "Stopped">>}

\* C1: after a single shutdown() whose drain wait ends because the sessions
\* drained before the deadline, the controller has gone through Running,
\* GracefulDraining, Terminating and Stopped in that order, one phase at a
\* time, and terminate() has run exactly once.
C1_DrainThenTerminate ==
    [][/\ PhaseOrder
       /\ (Phase' = "Stopped" /\ nShutdown' = 1 /\ csOutcome' = "drained")
             => (terminateCount' = 1 /\ startPc' = "returned")]_vars

C1_Witness ==
    /\ Phase = "Stopped"
    /\ nShutdown = 1
    /\ csOutcome = "drained"
    /\ terminateCount = 1

\* C2: after a single shutdown() whose sessions never drain, the drain wait
\* ends by its timeout, the timeout is logged as an error, terminate() still
\* runs and start() returns; and from GracefulDraining the controller always
\* reaches Stopped.
C2_DrainTimeout ==
    /\ [](csOutcome = "timeout" => (TimeoutMsg \in errorLog /\ terminateCount >= 1))
    /\ []((Phase = "Stopped" /\ nShutdown = 1 /\ taskState["ws"] # "finished")
             => (csOutcome = "timeout" /\ TimeoutMsg \in errorLog
                 /\ terminateCount = 1 /\ startPc = "returned"))
    /\ (Phase = "GracefulDraining") ~> (Phase = "Stopped")

C2_Witness ==
    /\ Phase = "Stopped"
    /\ nShutdown = 1
    /\ csOutcome = "timeout"
    /\ TimeoutMsg \in errorLog
    /\ taskState["session"] = "cancelled"

\* C3: a shutdown() invoked while the controller is in GracefulDraining
\* calls terminate() in that same call: the controller is in Terminating
\* and the loop is told to stop right after it, whatever the sessions and
\* the drain deadline do.
C3_DoubleSignal ==
    [][(nShutdown' = nShutdown + 1 /\ Phase = "GracefulDraining")
          => (/\ Phase' = "Terminating"
              /\ terminateCount' = terminateCount + 1
              /\ stopping')]_vars

\* the second signal was handled while the drain wait was still pending:
\* a session is active and the deadline has not elapsed
C3_Witness ==
    /\ Phase = "Terminating"
    /\ nShutdown = 2
    /\ taskState["cs"] = "suspended"
    /\ csOutcome = "none"
    /\ timerArmed
    /\ ActiveCount > 0

\* C4: whenever start() is over and no shutdown() came after terminate(),
\* the loop has been closed exactly once.
C4_StoppedClosedOnce ==
    (Phase = "Stopped" /\ ~lateShutdown) => closeCount = 1

\* C5: once terminate() has run every task that is not done has a cancel
\* request, and when start() is over no task is left running or pending.
C5_TerminateCancelsAll ==
    /\ terminateCount > 0 =>
          \A t \in Tasks : IsLive(taskState, t) => cancelReq[t]
    /\ Phase = "Stopped" =>
          \A t \in Tasks : taskState[t] \in {"absent", "finished", "cancelled"}

C5_Witness ==
    /\ Phase = "Stopped"
    /\ \A t \in BgTasks : taskState[t] = "cancelled"
    /\ taskState["ws"] = "cancelled"

(* ------------------------ device db: claims ---------------------------- *)

\* C6: once _data_valid is true it is true after every step: no refresh,
\* failed or not, no point fetch and no get() resets it.
C6_ReadinessMonotonic == [][data_valid => data_valid']_vars

\* ready, and the refresh that followed has failed
C6_Witness == data_valid /\ runError

\* C7: _data_valid is false at construction, and whenever it is true some
\* run() has fetched and merged a bulk result without error; point fetches
\* and failed refreshes leave it false.
C7_ReadyOnlyAfterBulk ==
    /\ data_valid => bulkDone
    /\ (runPc = "sleep" /\ ~bulkDone /\ getPc = "idle") => ~data_valid

\* a point fetch has filled the cache and a refresh has failed, and the
\* cache is not ready; then a refresh succeeds and it is
C7_Witness == data_valid /\ bulkDone /\ devices # <<>>

NamesOf(d) == {d.hostname} \cup (IF d.alias # "" THEN {d.alias} ELSE {})

\* no two devices of different primary name in the index claim the same name
NoNameCollision ==
    \A k1, k2 \in DOMAIN devices :
        devices[k1].hostname # devices[k2].hostname
            => NamesOf(devices[k1]) \cap NamesOf(devices[k2]) = {}

\* C8: every device stored in the index is the value stored under its own
\* primary name and, if it has an alias, under that alias (as long as the
\* backend gave no name to two devices).
C8_IndexAliasInvariant ==
    NoNameCollision =>
        \A k \in DOMAIN devices :
            LET d == devices[k] IN
            /\ d.hostname \in DOMAIN devices
            /\ devices[d.hostname] = d
            /\ d.alias # "" => (d.alias \in DOMAIN devices /\ devices[d.alias] = d)

\* the device at position i of b shares no name with another device of b
NoCollisionIn(b, i) ==
    \A j \in DOMAIN b : j # i => NamesOf(b[j]) \cap NamesOf(b[i]) = {}

\* C9: after a merge, every device of the merged result that has an alias
\* and shares no name with another device of that result is found under
\* its primary name and under its alias, and both lookups return it.
C9_AliasReachable ==
    \A i \in DOMAIN lastMerged :
        LET d == lastMerged[i] IN
        (d.alias # "" /\ NoCollisionIn(lastMerged, i))
            => /\ Lookup(devices, d.hostname) = [result |-> "ok", value |-> d]
               /\ Lookup(devices, d.alias) = [result |-> "ok", value |-> d]

C9_Witness ==
    /\ Len(lastMerged) = 2
    /\ lastMerged[1].alias = "a1"
    /\ lastMerged[2].alias = ""
    /\ Lookup(devices, "a1").value = lastMerged[1]
    /\ Lookup(devices, lastMerged[1].hostname).value = lastMerged[1]

\* a step in which the point fetch of get() returns and is merged
PointFetchReturns ==
    getPc = "fetch" /\ getPc' = "idle" /\ getResult' # "BackendError"

\* a step in which get() is called
GetIsCalled ==
    /\ getPc = "idle"
    /\ <<getPc, getName, getAuto, getResult, getValue>>'
           # <<getPc, getName, getAuto, getResult, getValue>>

\* C10 as stated: when the point fetch for n returns a device with primary
\* name n, get(n) returns that device.
C10_Original ==
    [][PointFetchReturns =>
          \A i \in DOMAIN lastMerged' :
              lastMerged'[i].hostname = getName
                  => (getResult' = "ok" /\ getValue' = lastMerged'[i])]_vars

\* C10 as amended: when the point fetch for n returns a device with primary
\* name n and no later device of the result is named n (by primary name or
\* alias), get(n) returns that device and it is stored under n; no step removes a name
\* from the index, and a get() for a stored name returns the stored device
\* without a backend fetch.
C10_PointFetchMerge ==
    [][/\ PointFetchReturns =>
             \A i \in DOMAIN lastMerged' :
                 (/\ lastMerged'[i].hostname = getName
                  /\ \A j \in DOMAIN lastMerged' :
                         j > i => getName \notin NamesOf(lastMerged'[j]))
                     => /\ getResult' = "ok"
                        /\ getValue' = lastMerged'[i]
                        /\ getName \in DOMAIN devices'
                        /\ devices'[getName] = lastMerged'[i]
       /\ DOMAIN devices \subseteq DOMAIN devices'
       /\ (GetIsCalled /\ getName' \in DOMAIN devices)
             => /\ getPc' = "idle"
                /\ getResult' = "ok"
                /\ getValue' = devices[getName']
                /\ devices' = devices]_vars

\* the cache was filled by a point fetch only, and a later get() without
\* autofetch has found the device
C10_Witness ==
    /\ ~bulkDone
    /\ getPc = "idle"
    /\ ~getAuto
    /\ getResult = "ok"
    /\ getValue.hostname = getName
    /\ \E i \in DOMAIN lastMerged : lastMerged[i] = getValue

\* C11: a get() without autofetch for a name that is not in the index
\* raises the KeyError, starts no backend fetch and leaves the index and
\* _data_valid as they are.
C11_MissWithoutAutofetch ==
    [][(GetIsCalled /\ ~getAuto' /\ getName' \notin DOMAIN devices)
          => /\ getResult' = "KeyError"
             /\ getError' = <<"Device not found", getName'>>
             /\ getPc' = "idle"
             /\ ~fetchRaised'
             /\ devices' = devices
             /\ lastMerged' = lastMerged
             /\ data_valid' = data_valid]_vars

C11_Witness ==
    /\ getPc = "idle"
    /\ ~getAuto
    /\ getName \in Names
    /\ getName \notin DOMAIN devices
    /\ getResult = "KeyError"

\* the point fetch returned no device named n by primary name or alias
NotReturned(b, n) == \A i \in DOMAIN b : n \notin NamesOf(b[i])

\* C12 as stated: when the point fetch of get(n) returns without error and
\* returns no device named n, get(n) raises the KeyError carrying n.
C12_Original ==
    [][(PointFetchReturns /\ NotReturned(lastMerged', getName))
          => /\ getResult' = "KeyError"
             /\ getError' = <<"Device not found", getName>>]_vars

\* C12 as amended: when the point fetch of get(n) returns without error,
\* returns no device named n and n is still not in the index at that time,
\* get(n) raises the KeyError carrying n; the devices that were returned
\* are merged under their own names.
C12_MissAfterAutofetch ==
    [][(/\ PointFetchReturns
        /\ NotReturned(lastMerged', getName)
        /\ getName \notin DOMAIN devices)
          => /\ getResult' = "KeyError"
             /\ getError' = <<"Device not found", getName>>
             /\ getName \notin DOMAIN devices'
             /\ \A i \in DOMAIN lastMerged' :
                    NamesOf(lastMerged'[i]) \subseteq DOMAIN devices']_vars

\* the fetch for a1 returned a device under another name: a1 is not found
\* and the device returned is in the index
C12_Witness ==
    /\ getPc = "idle"
    /\ getAuto
    /\ getResult = "KeyError"
    /\ getError = <<"Device not found", getName>>
    /\ lastMerged # <<>>
    /\ NotReturned(lastMerged, getName)
    /\ lastMerged[1].hostname \in DOMAIN devices

\* C13: when the point fetch of get() raises, get() ends with that error,
\* not with the KeyError and not with a result, and the index and
\* _data_valid are as they were.
C13_PointFetchError ==
    [][(getPc = "fetch" /\ fetchRaised')
          => /\ getResult' = "BackendError"
             /\ getError' = <<>>
             /\ getPc' = "idle"
             /\ devices' = devices
             /\ data_valid' = data_valid]_vars

C13_Witness ==
    /\ fetchRaised
    /\ getResult = "BackendError"
    /\ getAuto
    /\ getName \notin DOMAIN devices

\* C14: a run() that raises does not end the periodic loop: the task goes
\* back to its sleep, and unless it is cancelled the next refresh is
\* started when the period has elapsed; this holds after every failure.
C14_RetryForever ==
    /\ [][(runPc = "fetch" /\ runPc' \notin {"fetch", "cancelled"} /\ runError')
             => runPc' = "sleep"]_vars
    /\ [](runPc \in {"sleep", "fetch", "cancelled"})
    /\ (runError /\ runPc = "sleep") ~> (runPc \in {"fetch", "cancelled"})

\* the refresh after a failed one is in flight
C14_Witness == runError /\ runPc = "fetch"

\* C15: wait_for_data() has returned only when _data_valid is true; called
\* when _data_valid is true it returns without waiting, otherwise it waits;
\* and a caller that waits while _data_valid is true returns.
C15_WaitForReady ==
    /\ [](waitPc = "returned" => data_valid)
    /\ [][(waitPc \in {"idle", "returned"} /\ waitPc' # waitPc)
             => waitPc' = (IF data_valid THEN "returned" ELSE "waiting")]_vars
    /\ [][(waitPc = "waiting" /\ waitPc' # "waiting")
             => (data_valid /\ waitPc' = "returned")]_vars
    /\ (waitPc = "waiting" /\ data_valid) ~> (waitPc = "returned")

\* a caller has returned from wait_for_data() after a completed refresh
C15_Witness == waitPc = "returned" /\ data_valid /\ bulkDone

\* C16: no step removes a name from the index: every name that is a key
\* stays a key, a lookup that succeeded keeps succeeding, and a get()
\* without autofetch for a stored name returns the stored device.
C16_NeverPruned ==
    [][/\ \A n \in DOMAIN devices :
              n \in DOMAIN devices' /\ Lookup(devices', n).result = "ok"
       /\ (GetIsCalled /\ ~getAuto' /\ getName' \in DOMAIN devices)
             => (getResult' = "ok" /\ getName' \in DOMAIN devices')]_vars

\* a get() without autofetch has found a name that the latest merge did
\* not bring
C16_Witness ==
    /\ getPc = "idle"
    /\ ~getAuto
    /\ getResult = "ok"
    /\ lastMerged # <<>>
    /\ NotReturned(lastMerged, getName)
    /\ bulkDone

\* the positions of b whose device is named n
Writes(b, n) == {i \in DOMAIN b : n \in NamesOf(b[i])}

\* the device of b that the merge of b leaves stored under n
LastWriter(b, n) ==
    b[CHOOSE i \in Writes(b, n) : \A j \in Writes(b, n) : j <= i]

\* a step that merges the second of two fetches (one bulk, one point) that
\* were in flight at the same time
SecondMerge ==
    \/ race = "pointMerged" /\ race' = "pointThenBulk"
    \/ race = "bulkMerged" /\ race' = "bulkThenPoint"

\* C17: when a bulk fetch and a point fetch were in flight at the same
\* time and both brought a device for a name, the earlier merge stored its
\* device under the name and the later merge replaced it by its own,
\* whichever of the two fetches was started first.
C17_LastMergeWins ==
    [][SecondMerge =>
          \A n \in Names :
              (Writes(lastMerged, n) # {} /\ Writes(lastMerged', n) # {})
                  => /\ devices[n] = LastWriter(lastMerged, n)
                     /\ devices'[n] = LastWriter(lastMerged', n)]_vars

\* the point fetch merged first and get() returned its device; the bulk
\* fetch merged after it and the index holds another device under the name
C17_Witness ==
    /\ race = "pointThenBulk"
    /\ getResult = "ok"
    /\ Writes(lastMerged, getName) # {}
    /\ devices[getName] = LastWriter(lastMerged, getName)
    /\ devices[getName] # getValue

\* C18: in every state that another task can see, the latest merged result
\* is in the index as a whole: every device of it is found under each of
\* its names unless a later device of the same result took the name; and
\* every step that changes the index is the merge of one whole result.
C18_NoTornMerge ==
    /\ [](\A i \in DOMAIN lastMerged :
              \A n \in NamesOf(lastMerged[i]) :
                  /\ n \in DOMAIN devices
                  /\ devices[n] = LastWriter(lastMerged, n))
    /\ [][devices' # devices => devices' = Merge(devices, lastMerged')]_vars

\* a get() is suspended in its point fetch and sees the index after the
\* bulk refresh merged two devices, the first with an alias
C18_Witness ==
    /\ getPc = "fetch"
    /\ race = "bulkMerged"
    /\ Len(lastMerged) = 2
    /\ lastMerged[1].alias = "a1"
    /\ devices["a1"] = lastMerged[1]
    /\ devices[lastMerged[2].hostname] = lastMerged[2]

\* C19: every key of the index is the primary name or the alias of the
\* device stored under it, and a get() that succeeded returned a device
\* that has the requested name as primary name or alias.
C19_KeyEntityConsistency ==
    /\ \A k \in DOMAIN devices : k \in NamesOf(devices[k])
    /\ (getPc = "idle" /\ getResult = "ok") => getName \in NamesOf(getValue)

\* a get() by alias after a point fetch returned the device of that alias
C19_Witness ==
    /\ getPc = "idle"
    /\ getAuto
    /\ getResult = "ok"
    /\ getValue.alias = getName
    /\ devices[getValue.hostname] = getValue

\* C20: the first shutdown() only sets _shutting_down and schedules the
\* task of _clean_shutdown: it cancels no task and does not stop the loop;
\* while the controller is Running or GracefulDraining no background task
\* is cancelled or asked to cancel and the loop is not asked to stop; and
\* GracefulDraining is left only for Terminating, by a further shutdown()
\* or by the end of the drain wait (drained or timed out).
C20_GracefulNonDestructive ==
    /\ [](Phase \in {"Running", "GracefulDraining"}
             => /\ ~stopping
                /\ \A t \in BgTasks :
                       ~cancelReq[t] /\ taskState[t] # "cancelled")
    /\ [][(~shutting_down /\ shutting_down')
             => /\ nShutdown = 0
                /\ taskState' = [taskState EXCEPT !["cs"] = "created"]
                /\ StepCb("cs") \in ready'
                /\ UNCHANGED <<cancelReq, stopping, terminateCount, startPc,
                               csOutcome, timerArmed, closeCount>>]_vars
    /\ [][(Phase = "GracefulDraining" /\ Phase' # "GracefulDraining")
             => /\ Phase' = "Terminating"
                /\ \/ nShutdown' = nShutdown + 1
                   \/ (csOutcome = "none" /\ csOutcome' \in {"drained", "timeout"})]_vars

\* the drain wait is under way, its deadline is armed, and every
\* background task is alive with no cancel request
C20_Witness ==
    /\ Phase = "GracefulDraining"
    /\ LoopRunning
    /\ taskState["cs"] = "suspended"
    /\ taskState["ws"] = "suspended"
    /\ timerArmed
    /\ ~stopping
    /\ \A t \in BgTasks : IsLive(taskState, t) /\ ~cancelReq[t]

====
